---- MODULE Spec2Model ----
(***************************************************************************)
(* GDLearning (libspn/learning/gd.py): gradient-descent learning of an SPN *)
(* over a DAG of nodes.  The constructor builds the accumulator registry   *)
(* by a graph traversal; accumulate_updates() adds learning-rate scaled    *)
(* deltas to the accumulators from a provider's cached signal tables;      *)
(* update_spn() commits the accumulators to the live parameters;           *)
(* reset_accumulators() re-runs the accumulators' zero initializers.       *)
(*                                                                         *)
(* Tensors are integer vectors.  Each method call builds its grouped op    *)
(* and runs it once; a call that raises while building runs nothing.      *)
(***************************************************************************)
EXTENDS Integers, Sequences, FiniteSets, TLC

NumNodes == 3    \* nodes of the SPN graph
MaxCalls == 4    \* method calls made on one GDLearning instance
MaxSig == 1      \* largest base value of a signal entry

Nodes == 1..NumNodes
Root == 1

HARD == "HARD"
SOFT == "SOFT"
DISCRIMINATIVE == "DISCRIMINATIVE"
GENERATIVE == "GENERATIVE"

LearningInferenceTypes == {HARD, SOFT}
LearningTypes == {DISCRIMINATIVE, GENERATIVE}
LearningRates == {-1, 0, 1, 2}

\* None / a set attribute
None == <<>>
Some(v) == <<v>>

VARIABLES
    spn,                 \* the graph: per node its children and capabilities
    engine,              \* what the positive / actual pass computes for this graph
    args,                \* arguments of the GDLearning(...) call
    status,              \* "new", "ok" (constructed), "failed" (constructor raised)
    learning_rate,       \* self._learning_rate
    log,                 \* self._log
    mpe_path,            \* self._mpe_path
    gradient,            \* self._gradient
    param_nodes,         \* self._param_nodes
    gaussian_leaf_nodes, \* self._gaussian_leaf_nodes
    variable,            \* node.variable of every node (live weights)
    loc_variable,        \* node.loc_variable of every node
    scale_variable,      \* node.scale_variable of every node
    lastOp,              \* the method called last
    err,                 \* the exception the last call raised, or "none"
    calls,               \* number of method calls made after construction
    trace,               \* observations of the session (call counts, snapshots)
    cli                  \* the training script: its command line and where it got to

vars == <<spn, engine, args, status, learning_rate, log, mpe_path, gradient,
          param_nodes, gaussian_leaf_nodes, variable, loc_variable,
          scale_variable, lastOp, err, calls, trace, cli>>

(***************************************************************************)
(* Tensor operations                                                       *)
(***************************************************************************)
\* number of elements of node n's parameter tensors
Shape(n) == 1 + (n % 2)

zeros_like(t) == [i \in DOMAIN t |-> 0]
tensor_add(a, b) == [i \in DOMAIN a |-> a[i] + b[i]]
tensor_sub(a, b) == [i \in DOMAIN a |-> a[i] - b[i]]
tensor_scale(a, c) == [i \in DOMAIN a |-> a[i] * c]
IsZero(t) == \A i \in DOMAIN t : t[i] = 0

(***************************************************************************)
(* Graph traversal                                                         *)
(***************************************************************************)
RECURSIVE SetToSeq(_)
SetToSeq(S) ==
    IF S = {} THEN <<>>
    ELSE LET m == CHOOSE x \in S : \A y \in S : x <= y
         IN  <<m>> \o SetToSeq(S \ {m})

\* depth-first, each reachable node once; returns the nodes in visiting order
RECURSIVE traverse_graph(_, _, _)
traverse_graph(stack, visited, order) ==
    IF stack = <<>> THEN order
    ELSE LET n == Head(stack)
         IN  IF n \in visited
             THEN traverse_graph(Tail(stack), visited, order)
             ELSE traverse_graph(SetToSeq(spn[n].children) \o Tail(stack),
                                 visited \cup {n}, Append(order, n))

\* the nodes of the DAG rooted at Root
RECURSIVE Closure(_)
Closure(S) ==
    LET T == S \cup UNION {spn[n].children : n \in S}
    IN  IF T = S THEN S ELSE Closure(T)

Reachable == Closure({Root})

(***************************************************************************)
(* _create_accumulators                                                    *)
(***************************************************************************)
\* a mis-written visitor: registers every leaf as a weight record too
fun_any_leaf(node, reg) ==
    LET r1 == IF spn[node].is_param \/ spn[node].gaussian_leaf
              THEN [reg EXCEPT !.param_nodes = Append(@,
                       [node |-> node, accum |-> zeros_like(variable[node])])]
              ELSE reg
    IN  IF spn[node].gaussian_leaf /\ spn[node].learn_distribution_parameters
        THEN [r1 EXCEPT !.gaussian_leaf_nodes = Append(@,
                 [node |-> node,
                  mean_grad |-> zeros_like(loc_variable[node]),
                  var_grad |-> zeros_like(scale_variable[node])])]
        ELSE r1

\* a visitor that gives every GaussianLeaf a record, trainable or not
fun_every_leaf(node, reg) ==
    LET r1 == IF spn[node].is_param
              THEN [reg EXCEPT !.param_nodes = Append(@,
                       [node |-> node, accum |-> zeros_like(variable[node])])]
              ELSE reg
    IN  IF spn[node].gaussian_leaf
        THEN [r1 EXCEPT !.gaussian_leaf_nodes = Append(@,
                 [node |-> node,
                  mean_grad |-> zeros_like(loc_variable[node]),
                  var_grad |-> zeros_like(scale_variable[node])])]
        ELSE r1

\* the visitor: one ParamNode per is_param node, one GaussianLeafNode per
\* GaussianLeaf that learns its distribution parameters
fun(node, reg) ==
    LET r1 == IF spn[node].is_param
              THEN [reg EXCEPT !.param_nodes = Append(@,
                       [node |-> node, accum |-> zeros_like(variable[node])])]
              ELSE reg
    IN  IF spn[node].gaussian_leaf /\ spn[node].learn_distribution_parameters
        THEN [r1 EXCEPT !.gaussian_leaf_nodes = Append(@,
                 [node |-> node,
                  mean_grad |-> zeros_like(loc_variable[node]),
                  var_grad |-> zeros_like(scale_variable[node])])]
        ELSE r1

RECURSIVE visit_all(_, _, _)
visit_all(order, i, reg) ==
    IF i > Len(order) THEN reg
    ELSE visit_all(order, i + 1, fun(order[i], reg))

create_accumulators ==
    visit_all(traverse_graph(<<Root>>, {}, <<>>), 1,
              [param_nodes |-> <<>>, gaussian_leaf_nodes |-> <<>>])

(***************************************************************************)
(* Providers (MPEPath / Gradient)                                          *)
(***************************************************************************)
\* a provider as constructed: both tables empty, nothing computed yet
NewProvider(lg) ==
    [log |-> lg, positive |-> <<>>, actual |-> <<>>,
     positive_calls |-> 0, actual_calls |-> 0]

\* how far the live parameters are from their initial values
RECURSIVE TensorSum(_)
TensorSum(t) == IF t = <<>> THEN 0 ELSE Head(t) + TensorSum(Tail(t))

RECURSIVE ParameterDrift(_)
ParameterDrift(n) ==
    IF n = 0 THEN 0
    ELSE ParameterDrift(n - 1)
         + (TensorSum(variable[n]) - Shape(n))
         + TensorSum(loc_variable[n])
         + (TensorSum(scale_variable[n]) - Shape(n))

\* a pass over the graph: the signals it yields are those of the model as
\* parameterised when the pass is run
shifted(table, d) ==
    [n \in DOMAIN table |-> [i \in DOMAIN table[n] |-> table[n][i] + d]]

run_pass(table) == shifted(table, ParameterDrift(NumNodes))

\* get_mpe_path / get_gradients: run the positive pass, fill the table
get_positive(p) ==
    [p EXCEPT !.positive = run_pass(engine.positive), !.positive_calls = @ + 1]

\* get_mpe_path_actual / get_actual_gradients
get_actual(p) ==
    [p EXCEPT !.actual = run_pass(engine.actual), !.actual_calls = @ + 1]

\* the provider the session is bound to
Provider == IF args.learning_inference_type = HARD THEN mpe_path[1] ELSE gradient[1]

(***************************************************************************)
(* Initial states                                                          *)
(***************************************************************************)
Plain == [is_param |-> FALSE, gaussian_leaf |-> FALSE,
          learn_distribution_parameters |-> FALSE, log |-> FALSE]
Weights(lg) == [is_param |-> TRUE, gaussian_leaf |-> FALSE,
                learn_distribution_parameters |-> FALSE, log |-> lg]
Leaf(ld) == [is_param |-> FALSE, gaussian_leaf |-> TRUE,
             learn_distribution_parameters |-> ld, log |-> FALSE]

WithChildren(kind, ch) ==
    [is_param |-> kind.is_param, gaussian_leaf |-> kind.gaussian_leaf,
     learn_distribution_parameters |-> kind.learn_distribution_parameters,
     log |-> kind.log, children |-> ch]

\* every DAG over Nodes (edges lead to higher-numbered nodes), every node
\* plain, a weight node, or a leaf with or without trainable parameters
AllDags ==
    { [n \in Nodes |-> WithChildren(k[n], c[n])] :
        k \in [Nodes -> {Plain, Weights(FALSE), Leaf(TRUE), Leaf(FALSE)}],
        c \in { f \in [Nodes -> SUBSET Nodes] :
                    \A n \in Nodes : \A m \in f[n] : m > n } }

\* root -> ... -> sum weights -> leaf (the chain of the end-to-end scenario)
Chain ==
    [n \in Nodes |->
        WithChildren(IF n = Root THEN Plain
                     ELSE IF n = NumNodes THEN Leaf(TRUE) ELSE Weights(n % 2 = 0),
                     IF n < NumNodes THEN {n + 1} ELSE {})]

\* every inner node has the last node, a weight node, as a child
Shared ==
    [n \in Nodes |->
        WithChildren(IF n = NumNodes THEN Weights(TRUE)
                     ELSE IF n = Root THEN Plain ELSE Weights(FALSE),
                     IF n = NumNodes THEN {}
                     ELSE IF n = Root THEN Nodes \ {Root} ELSE {NumNodes})]

\* a graph without learnable state
NoParams ==
    [n \in Nodes |-> WithChildren(IF n = NumNodes THEN Leaf(FALSE) ELSE Plain,
                                  IF n < NumNodes THEN {n + 1} ELSE {})]

SessionGraphs == {Chain, Shared, NoParams}

\* the tables the passes compute: entries for a set of nodes, the actual
\* signal equal to the positive one or not
PositiveSignal(n, base) == [i \in 1..Shape(n) |-> base + n + i]
ActualSignal(n, base, same) ==
    [i \in 1..Shape(n) |-> IF same THEN base + n + i ELSE i]

Engines(doms) ==
    { [positive |-> [n \in pd |-> PositiveSignal(n, base)],
       actual |-> [n \in ad |-> ActualSignal(n, base, same)]] :
        pd \in doms, ad \in doms, base \in 0..MaxSig, same \in BOOLEAN }

SessionDomains == {Nodes, {}} \cup { Nodes \ {n} : n \in Nodes }

InitialTrace ==
    [actual_lookups |-> 0, accumulated |-> 0, updated |-> 0,
     variable_at_change |-> [n \in Nodes |-> <<>>],
     loc_at_change |-> [n \in Nodes |-> <<>>],
     scale_at_change |-> [n \in Nodes |-> <<>>],
     before |-> <<>>,
     node_calls |-> <<>>,     \* calls into the nodes made by the last accumulate_updates
     last_ops |-> <<>>,       \* ops the last accumulate_updates ran
     first_ops |-> <<>>,      \* ops the first successful accumulate_updates ran
     first_tables |-> <<>>,   \* the tables when the positive one was first populated
     commits |-> <<>>]        \* update calls into the nodes made by the last update_spn

InitWith(graphs, engines, arguments) ==
    /\ spn \in graphs
    /\ engine \in engines
    /\ args \in arguments
    /\ status = "new"
    /\ learning_rate = None
    /\ log = None
    /\ mpe_path = None
    /\ gradient = None
    /\ param_nodes = None
    /\ gaussian_leaf_nodes = None
    /\ variable = [n \in Nodes |-> [i \in 1..Shape(n) |-> 1]]
    /\ loc_variable = [n \in Nodes |-> [i \in 1..Shape(n) |-> 0]]
    /\ scale_variable = [n \in Nodes |-> [i \in 1..Shape(n) |-> 1]]
    /\ lastOp = "none"
    /\ err = "none"
    /\ calls = 0
    /\ trace = InitialTrace

\* GDLearning(root, mpe_path / gradient given or not, learning_rate, log,
\* learning_type, learning_inference_type)
Arguments(types) ==
    [learning_rate : LearningRates, log : {TRUE},
     learning_type : types,
     learning_inference_type : LearningInferenceTypes,
     provider_given : BOOLEAN]

\* the training script is not run in a GDLearning session
NoCli == [pc |-> "off"]

Init ==
    /\ InitWith(SessionGraphs, Engines(SessionDomains), Arguments(LearningTypes))
    /\ cli = NoCli

(***************************************************************************)
(* GDLearning.__init__                                                     *)
(***************************************************************************)
\* the provider passed as mpe_path= / gradient=; its log flag differs from
\* the log argument, so that taking it over is visible
GivenProvider == NewProvider(~args.log)

\* a check that lets a zero rate through
rejects_negative_only(rate) == rate < 0

\* line 41: learning_rate <= 0.0 raises ValueError
rejects_learning_rate(rate) == rate <= 0

Construct ==
    /\ status = "new"
    /\ lastOp' = "construct"
    /\ UNCHANGED <<spn, engine, args, variable, loc_variable, scale_variable, calls, cli>>
    /\ IF rejects_learning_rate(args.learning_rate)
       THEN /\ status' = "failed"
            /\ err' = "ValueError"
            /\ UNCHANGED <<learning_rate, log, mpe_path, gradient, param_nodes,
                           gaussian_leaf_nodes, trace>>
       ELSE /\ status' = "ok"
            /\ err' = "none"
            /\ learning_rate' = Some(args.learning_rate)
            /\ log' = Some(IF args.provider_given THEN GivenProvider.log ELSE args.log)
            /\ IF args.learning_inference_type = HARD
               THEN /\ gradient' = None
                    /\ mpe_path' = Some(IF args.provider_given THEN GivenProvider
                                        ELSE NewProvider(args.log))
               ELSE /\ mpe_path' = None
                    /\ gradient' = Some(IF args.provider_given THEN GivenProvider
                                        ELSE NewProvider(args.log))
            /\ param_nodes' = Some(create_accumulators.param_nodes)
            /\ gaussian_leaf_nodes' = Some(create_accumulators.gaussian_leaf_nodes)
            /\ trace' = [trace EXCEPT !.variable_at_change = variable,
                                      !.loc_at_change = loc_variable,
                                      !.scale_at_change = scale_variable]

(***************************************************************************)
(* Node capabilities                                                       *)
(***************************************************************************)
\* node._compute_hard_gd_update(signal, actual or None): the node corrects
\* internally when it is handed an actual signal
compute_hard_gd_update(signal, actual) ==
    IF actual = None THEN signal ELSE tensor_sub(signal, actual[1])

\* leaf._compute_gradient(incoming_grad): linear in the incoming signal
compute_gradient(incoming_grad) ==
    [mean_grad |-> incoming_grad, var_grad |-> tensor_scale(incoming_grad, 2)]

\* node.update(delta): linear-space weights, the delta is added directly
update(value, delta) == tensor_add(value, delta)

\* node.update_log(delta): log-space weights, the delta is added in the log domain
update_log(value, delta) == tensor_add(value, delta)

(***************************************************************************)
(* accumulate_updates                                                      *)
(***************************************************************************)
Discriminative == args.learning_type = DISCRIMINATIVE

\* the positive pass re-run on every call, cached table or not
ensure_tables_always(p) ==
    LET p1 == get_positive(p)
    IN  IF Discriminative /\ DOMAIN p1.actual = {} THEN get_actual(p1) ELSE p1

\* lines 108-123: compute a table when it is empty
ensure_tables(p) ==
    LET p1 == IF DOMAIN p.positive = {} THEN get_positive(p) ELSE p
    IN  IF Discriminative /\ DOMAIN p1.actual = {} THEN get_actual(p1) ELSE p1

\* the weight loop reading the actual table whatever the learning type
param_step_reads_actual(pn, i, p, st) ==
    IF pn.node \notin DOMAIN p.positive THEN [st EXCEPT !.err = "KeyError"]
    ELSE IF pn.node \notin DOMAIN p.actual
    THEN [st EXCEPT !.err = "KeyError", !.actual_lookups = @ + 1]
    ELSE [st EXCEPT
            !.actual_lookups = @ + 1,
            !.ops = Append(@, [target |-> "accum", index |-> i,
                     delta |-> tensor_scale(
                         compute_hard_gd_update(p.positive[pn.node],
                                                Some(p.actual[pn.node])),
                         learning_rate[1])])]

\* the weight loop skipping a record whose node has no signal
param_step_skips(pn, i, p, st) ==
    IF pn.node \notin DOMAIN p.positive THEN st
    ELSE IF Discriminative /\ pn.node \notin DOMAIN p.actual
    THEN [st EXCEPT !.actual_lookups = @ + 1]
    ELSE [st EXCEPT
            !.actual_lookups = @ + (IF Discriminative THEN 1 ELSE 0),
            !.ops = Append(@, [target |-> "accum", index |-> i,
                     delta |-> tensor_scale(
                         compute_hard_gd_update(p.positive[pn.node],
                             IF Discriminative THEN Some(p.actual[pn.node]) ELSE None),
                         learning_rate[1])])]

\* the weight loop adding the update to the node's weights, not to pn.accum
param_step_to_variable(pn, i, p, st) ==
    IF pn.node \notin DOMAIN p.positive THEN [st EXCEPT !.err = "KeyError"]
    ELSE IF Discriminative /\ pn.node \notin DOMAIN p.actual
    THEN [st EXCEPT !.err = "KeyError", !.actual_lookups = @ + 1]
    ELSE [st EXCEPT
            !.actual_lookups = @ + (IF Discriminative THEN 1 ELSE 0),
            !.ops = Append(@, [target |-> "variable", index |-> pn.node,
                     delta |-> tensor_scale(
                         compute_hard_gd_update(p.positive[pn.node],
                             IF Discriminative THEN Some(p.actual[pn.node]) ELSE None),
                         learning_rate[1])])]

\* the weight loop handing the positive signal over as the actual one too
param_step_counts_as_actual(pn, i, p, st) ==
    IF pn.node \notin DOMAIN p.positive THEN [st EXCEPT !.err = "KeyError"]
    ELSE IF Discriminative /\ pn.node \notin DOMAIN p.actual
    THEN [st EXCEPT !.err = "KeyError", !.actual_lookups = @ + 1]
    ELSE [st EXCEPT
            !.actual_lookups = @ + (IF Discriminative THEN 1 ELSE 0),
            !.node_calls = Append(@,
                     [node |-> pn.node, call |-> "compute_hard_gd_update",
                      signal |-> p.positive[pn.node],
                      actual |-> IF Discriminative THEN Some(p.actual[pn.node])
                                 ELSE Some(p.positive[pn.node])]),
            !.ops = Append(@, [target |-> "accum", index |-> i,
                     delta |-> tensor_scale(
                         compute_hard_gd_update(p.positive[pn.node],
                             IF Discriminative THEN Some(p.actual[pn.node])
                             ELSE Some(p.positive[pn.node])),
                         learning_rate[1])])]

\* the weight loop correcting the signal itself, as the leaf loop does
param_step_precorrected(pn, i, p, st) ==
    IF pn.node \notin DOMAIN p.positive THEN [st EXCEPT !.err = "KeyError"]
    ELSE IF Discriminative /\ pn.node \notin DOMAIN p.actual
    THEN [st EXCEPT !.err = "KeyError", !.actual_lookups = @ + 1]
    ELSE LET signal == IF Discriminative
                       THEN tensor_sub(p.positive[pn.node], p.actual[pn.node])
                       ELSE p.positive[pn.node]
         IN [st EXCEPT
            !.actual_lookups = @ + (IF Discriminative THEN 1 ELSE 0),
            !.node_calls = Append(@,
                     [node |-> pn.node, call |-> "compute_hard_gd_update",
                      signal |-> signal, actual |-> None]),
            !.ops = Append(@, [target |-> "accum", index |-> i,
                     delta |-> tensor_scale(compute_hard_gd_update(signal, None),
                                            learning_rate[1])])]

\* lines 128-151, one weight record: look the signals up, compute the
\* update, scale it by the learning rate, append the assign_add
param_step(pn, i, p, st) ==
    IF pn.node \notin DOMAIN p.positive THEN [st EXCEPT !.err = "KeyError"]
    ELSE IF Discriminative /\ pn.node \notin DOMAIN p.actual
    THEN [st EXCEPT !.err = "KeyError", !.actual_lookups = @ + 1]
    ELSE [st EXCEPT
            !.actual_lookups = @ + (IF Discriminative THEN 1 ELSE 0),
            !.node_calls = Append(@,
                     [node |-> pn.node, call |-> "compute_hard_gd_update",
                      signal |-> p.positive[pn.node],
                      actual |-> IF Discriminative THEN Some(p.actual[pn.node])
                                 ELSE None]),
            !.ops = Append(@, [target |-> "accum", index |-> i,
                     delta |-> tensor_scale(
                         compute_hard_gd_update(p.positive[pn.node],
                             IF Discriminative THEN Some(p.actual[pn.node]) ELSE None),
                         learning_rate[1])])]

RECURSIVE param_loop(_, _, _)
param_loop(i, p, st) ==
    IF i > Len(param_nodes[1]) \/ st.err # "none" THEN st
    ELSE param_loop(i + 1, p, param_step(param_nodes[1][i], i, p, st))

\* the leaf loop without the discriminative correction
leaf_step_uncorrected(gn, i, p, st) ==
    IF gn.node \notin DOMAIN p.positive THEN [st EXCEPT !.err = "KeyError"]
    ELSE LET g == compute_gradient(p.positive[gn.node])
         IN  [st EXCEPT
                !.ops = @ \o
                    << [target |-> "mean_grad", index |-> i,
                        delta |-> tensor_scale(g.mean_grad, learning_rate[1])],
                       [target |-> "var_grad", index |-> i,
                        delta |-> tensor_scale(g.var_grad, learning_rate[1])] >>]

\* "incoming_grad -= actual" on an array that is updated in place: the
\* table entry incoming_grad was read from changes with it
isub_in_place(table, node, actual) ==
    [table |-> [table EXCEPT ![node] = tensor_sub(@, actual)],
     value |-> tensor_sub(table[node], actual)]

\* line 164, "incoming_grad -= actual" on a tensor: incoming_grad is
\* rebound to the difference, the table entry is left alone
isub(table, node, actual) ==
    [table |-> table, value |-> tensor_sub(table[node], actual)]

\* lines 160-167, one leaf record: the incoming signal is the positive
\* one, minus the actual one when discriminative
leaf_step(gn, i, p, st) ==
    IF gn.node \notin DOMAIN st.positive THEN [st EXCEPT !.err = "KeyError"]
    ELSE IF Discriminative /\ gn.node \notin DOMAIN p.actual
    THEN [st EXCEPT !.err = "KeyError", !.actual_lookups = @ + 1]
    ELSE LET corrected == isub(st.positive, gn.node, p.actual[gn.node])
             incoming_grad ==
                 IF Discriminative THEN corrected.value ELSE st.positive[gn.node]
             g == compute_gradient(incoming_grad)
         IN  [st EXCEPT
                !.actual_lookups = @ + (IF Discriminative THEN 1 ELSE 0),
                !.positive = IF Discriminative THEN corrected.table ELSE @,
                !.node_calls = Append(@,
                     [node |-> gn.node, call |-> "compute_gradient",
                      signal |-> incoming_grad, actual |-> None]),
                !.ops = @ \o
                    << [target |-> "mean_grad", index |-> i,
                        delta |-> tensor_scale(g.mean_grad, learning_rate[1])],
                       [target |-> "var_grad", index |-> i,
                        delta |-> tensor_scale(g.var_grad, learning_rate[1])] >>]

RECURSIVE leaf_loop(_, _, _)
leaf_loop(i, p, st) ==
    IF i > Len(gaussian_leaf_nodes[1]) \/ st.err # "none" THEN st
    ELSE leaf_loop(i + 1, p, leaf_step(gaussian_leaf_nodes[1][i], i, p, st))

\* the sum of the deltas the ops of a group add to one accumulator
RECURSIVE group_delta(_, _, _, _)
group_delta(ops, target, index, acc) ==
    IF ops = <<>> THEN acc
    ELSE group_delta(Tail(ops), target, index,
                     IF Head(ops).target = target /\ Head(ops).index = index
                     THEN tensor_add(acc, Head(ops).delta) ELSE acc)

\* tf.assign_add that stores the delta instead of adding it
assign_overwrite(accum, ops, target, index) ==
    group_delta(ops, target, index, zeros_like(accum))

\* tf.assign_add(accum, delta) for every op of the group
assign_add(accum, ops, target, index) ==
    group_delta(ops, target, index, accum)

Snapshot ==
    Some([param_nodes |-> param_nodes[1],
          gaussian_leaf_nodes |-> gaussian_leaf_nodes[1],
          variable |-> variable, loc_variable |-> loc_variable,
          scale_variable |-> scale_variable, provider |-> Provider,
          lastOp |-> lastOp])

accumulate_updates ==
    /\ status = "ok"
    /\ calls < MaxCalls
    /\ calls' = calls + 1
    /\ lastOp' = "accumulate"
    /\ UNCHANGED <<spn, engine, args, status, learning_rate, log,
                   loc_variable, scale_variable, cli>>
    /\ \E p \in {ensure_tables(Provider)} :
       \E st \in {leaf_loop(1, p,
                     param_loop(1, p, [ops |-> <<>>, actual_lookups |-> 0,
                                       err |-> "none", node_calls |-> <<>>,
                                       positive |-> p.positive]))} :
       LET q == [p EXCEPT !.positive = st.positive]
           tables == IF trace.first_tables = None /\ DOMAIN p.positive # {}
                     THEN Some([positive |-> p.positive, actual |-> p.actual])
                     ELSE trace.first_tables
       IN  /\ IF args.learning_inference_type = HARD
              THEN mpe_path' = Some(q) /\ UNCHANGED gradient
              ELSE gradient' = Some(q) /\ UNCHANGED mpe_path
           /\ err' = st.err
           /\ IF st.err = "none"
              THEN /\ variable' = [n \in Nodes |->
                          assign_add(variable[n], st.ops, "variable", n)]
                   /\ param_nodes' = Some([i \in 1..Len(param_nodes[1]) |->
                          [param_nodes[1][i] EXCEPT
                              !.accum = assign_add(@, st.ops, "accum", i)]])
                   /\ gaussian_leaf_nodes' = Some([i \in 1..Len(gaussian_leaf_nodes[1]) |->
                          [gaussian_leaf_nodes[1][i] EXCEPT
                              !.mean_grad = assign_add(@, st.ops, "mean_grad", i),
                              !.var_grad = assign_add(@, st.ops, "var_grad", i)]])
                   /\ trace' = [trace EXCEPT
                          !.actual_lookups = @ + st.actual_lookups,
                          !.accumulated = @ + 1,
                          !.updated = 0,
                          !.variable_at_change = variable,
                          !.loc_at_change = loc_variable,
                          !.scale_at_change = scale_variable,
                          !.before = Snapshot,
                          !.node_calls = st.node_calls,
                          !.last_ops = st.ops,
                          !.first_ops = IF @ = None THEN Some(st.ops) ELSE @,
                          !.first_tables = tables,
                          !.commits = <<>>]
              ELSE /\ UNCHANGED <<variable, param_nodes, gaussian_leaf_nodes>>
                   /\ trace' = [trace EXCEPT
                          !.actual_lookups = @ + st.actual_lookups,
                          !.before = Snapshot,
                          !.node_calls = st.node_calls,
                          !.last_ops = <<>>,
                          !.first_tables = tables,
                          !.commits = <<>>]

(***************************************************************************)
(* update_spn                                                              *)
(***************************************************************************)
\* the rule picked from the log flag of the GDLearning instance
commit_rule_by_flag(pn) == IF log[1] THEN "update_log" ELSE "update"

\* lines 177-188: update_log when the node is in log space, update
\* otherwise, in the HARD branch and in the other branch alike
commit_rule(pn) == IF spn[pn.node].log THEN "update_log" ELSE "update"

\* commit one weight record through the rule of the node's storage space
RECURSIVE commit_params(_, _)
commit_params(i, vs) ==
    IF i > Len(param_nodes[1]) THEN vs
    ELSE LET pn == param_nodes[1][i]
         IN  commit_params(i + 1,
                 [vs EXCEPT ![pn.node] = IF commit_rule(pn) = "update_log"
                                         THEN update_log(@, pn.accum)
                                         ELSE update(@, pn.accum)])

\* the calls update_spn makes into the nodes, in order
commit_calls ==
    [i \in 1..Len(param_nodes[1]) |->
        [node |-> param_nodes[1][i].node, call |-> commit_rule(param_nodes[1][i]),
         deltas |-> <<param_nodes[1][i].accum>>]]
    \o
    [i \in 1..Len(gaussian_leaf_nodes[1]) |->
        [node |-> gaussian_leaf_nodes[1][i].node, call |-> "assign_add",
         deltas |-> <<gaussian_leaf_nodes[1][i].mean_grad,
                      gaussian_leaf_nodes[1][i].var_grad>>]]

\* leaf.assign_add(mean_grad, var_grad): both deltas are applied
RECURSIVE commit_leaves(_, _)
commit_leaves(i, ls) ==
    IF i > Len(gaussian_leaf_nodes[1]) THEN ls
    ELSE LET gn == gaussian_leaf_nodes[1][i]
         IN  commit_leaves(i + 1,
                 [ls EXCEPT !.loc[gn.node] = tensor_add(@, gn.mean_grad),
                            !.scale[gn.node] = tensor_add(@, gn.var_grad)])

\* a commit that also clears what it committed
accumulators_after_update_cleared ==
    [param_nodes |-> [i \in 1..Len(param_nodes[1]) |->
         [param_nodes[1][i] EXCEPT !.accum = zeros_like(@)]],
     gaussian_leaf_nodes |-> [i \in 1..Len(gaussian_leaf_nodes[1]) |->
         [gaussian_leaf_nodes[1][i] EXCEPT !.mean_grad = zeros_like(@),
                                           !.var_grad = zeros_like(@)]]]

\* update_spn only reads the accumulators
accumulators_after_update ==
    [param_nodes |-> param_nodes[1], gaussian_leaf_nodes |-> gaussian_leaf_nodes[1]]

update_spn ==
    /\ status = "ok"
    /\ calls < MaxCalls
    /\ calls' = calls + 1
    /\ lastOp' = "update"
    /\ err' = "none"
    /\ UNCHANGED <<spn, engine, args, status, learning_rate, log, mpe_path, gradient,
                   cli>>
    /\ variable' = commit_params(1, variable)
    /\ LET ls == commit_leaves(1, [loc |-> loc_variable, scale |-> scale_variable])
       IN  loc_variable' = ls.loc /\ scale_variable' = ls.scale
    /\ param_nodes' = Some(accumulators_after_update.param_nodes)
    /\ gaussian_leaf_nodes' = Some(accumulators_after_update.gaussian_leaf_nodes)
    /\ trace' = [trace EXCEPT !.updated = @ + 1, !.before = Snapshot,
                              !.node_calls = <<>>, !.last_ops = <<>>,
                              !.commits = commit_calls]

(***************************************************************************)
(* reset_accumulators                                                      *)
(***************************************************************************)
\* an initializer list that leaves out the var_grad accumulators
reset_leaf_mean_only(gn) ==
    [gn EXCEPT !.mean_grad = zeros_like(loc_variable[gn.node])]

\* gn.mean_grad.initializer, gn.var_grad.initializer
reset_leaf(gn) ==
    [gn EXCEPT !.mean_grad = zeros_like(loc_variable[gn.node]),
               !.var_grad = zeros_like(scale_variable[gn.node])]

\* an initializer list without the weight accumulators
reset_param_skipped(pn) == pn

\* pn.accum.initializer
reset_param(pn) == [pn EXCEPT !.accum = zeros_like(variable[pn.node])]

\* a reset that runs the initializers of the nodes' own variables as well
live_after_reset_initialized ==
    [variable |-> [n \in Nodes |-> [i \in 1..Shape(n) |-> 1]],
     loc_variable |-> [n \in Nodes |-> [i \in 1..Shape(n) |-> 0]],
     scale_variable |-> [n \in Nodes |-> [i \in 1..Shape(n) |-> 1]]]

\* the group holds accumulator initializers only
live_after_reset ==
    [variable |-> variable, loc_variable |-> loc_variable,
     scale_variable |-> scale_variable]

reset_accumulators ==
    /\ status = "ok"
    /\ calls < MaxCalls
    /\ calls' = calls + 1
    /\ lastOp' = "reset"
    /\ err' = "none"
    /\ UNCHANGED <<spn, engine, args, status, learning_rate, log, mpe_path, gradient,
                   cli>>
    /\ variable' = live_after_reset.variable
    /\ loc_variable' = live_after_reset.loc_variable
    /\ scale_variable' = live_after_reset.scale_variable
    /\ param_nodes' = Some([i \in 1..Len(param_nodes[1]) |->
                               reset_param(param_nodes[1][i])])
    /\ gaussian_leaf_nodes' = Some([i \in 1..Len(gaussian_leaf_nodes[1]) |->
                               reset_leaf(gaussian_leaf_nodes[1][i])])
    /\ trace' = [trace EXCEPT !.accumulated = 0,
                              !.updated = 0,
                              !.variable_at_change = variable,
                              !.loc_at_change = loc_variable,
                              !.scale_at_change = scale_variable,
                              !.before = Snapshot,
                              !.node_calls = <<>>, !.last_ops = <<>>,
                              !.commits = <<>>]

(***************************************************************************)
(* Specifications                                                          *)
(***************************************************************************)
Next ==
    \/ Construct
    \/ accumulate_updates
    \/ update_spn
    \/ reset_accumulators

\* a learning session on one of the session graphs
Spec == Init /\ [][Next]_vars

\* construction over every DAG
BuildEngine ==
    [positive |-> [n \in Nodes |-> PositiveSignal(n, 0)],
     actual |-> [n \in Nodes |-> ActualSignal(n, 0, FALSE)]]

InitBuild ==
    /\ InitWith(AllDags, {BuildEngine}, Arguments({GENERATIVE}))
    /\ cli = NoCli

NextBuild == Construct

SpecBuild == InitBuild /\ [][NextBuild]_vars

(***************************************************************************)
(* examples/mnist_olivetti/train.py                                        *)
(***************************************************************************)
\* choices= of the --mode option
ModeChoices ==
    {"generative-gd", "generative-soft-em", "generative-hard-em",
     "generative-hard-em-supervised", "generative-hard-em-unweighted",
     "generative-hard-em-supervised-unweighted", "discriminative-gd"}

\* what a user may type after --mode
TypedModes ==
    ModeChoices \cup {"generative-hard-em-unweighted-supervised", "em"}

GenerativeEM(backprop, supervised) ==
    [logspace_accumulators |-> FALSE, backprop_mode |-> backprop,
     loss |-> IF supervised THEN "NegativeLogJoint" ELSE "NegativeLogMarginal",
     metrics |-> IF supervised THEN <<"LogMarginal", "Accuracy">> ELSE <<"LogMarginal">>,
     optimizer |-> "SGD", return_weighted_child_logits |-> supervised]

\* the if / elif chain of main(): the settings of a mode, or None when the
\* chain falls through to the else branch
mode_settings(mode) ==
    IF mode = "generative-hard-em" THEN Some(GenerativeEM("HARD_EM", FALSE))
    ELSE IF mode = "generative-hard-em-unweighted"
    THEN Some(GenerativeEM("HARD_EM_UNWEIGHTED", FALSE))
    ELSE IF mode = "generative-soft-em" THEN Some(GenerativeEM("EM", FALSE))
    ELSE IF mode = "generative-hard-em-supervised"
    THEN Some(GenerativeEM("HARD_EM", TRUE))
    ELSE IF mode = "generative-hard-em-unweighted-supervised"
    THEN Some(GenerativeEM("HARD_EM_UNWEIGHTED", TRUE))
    ELSE IF mode = "generative-gd"
    THEN Some([logspace_accumulators |-> TRUE, backprop_mode |-> "GRADIENT",
               loss |-> "NegativeLogMarginal", metrics |-> <<"LogMarginal">>,
               optimizer |-> "Adam", return_weighted_child_logits |-> FALSE])
    ELSE IF mode = "discriminative-gd"
    THEN Some([logspace_accumulators |-> TRUE, backprop_mode |-> "GRADIENT",
               loss |-> "SparseCategoricalCrossentropy", metrics |-> <<"Accuracy">>,
               optimizer |-> "Adam", return_weighted_child_logits |-> TRUE])
    ELSE None

CommandLines ==
    [pc : {"start"}, mode : TypedModes, model : {"ratspn", "dgcspn"},
     dataset : {"mnist", "olivetti", "cifar10"},
     leaf : {"normal", "cauchy", "laplace"}, completion : BOOLEAN,
     settings : {None}, error : {"none"}]

InitTrain ==
    /\ InitWith({NoParams}, {BuildEngine},
                {[learning_rate |-> 1, log |-> TRUE, learning_type |-> GENERATIVE,
                  learning_inference_type |-> HARD, provider_given |-> FALSE]})
    /\ cli \in CommandLines

GDLearningVars ==
    <<spn, engine, args, status, learning_rate, log, mpe_path, gradient,
      param_nodes, gaussian_leaf_nodes, variable, loc_variable,
      scale_variable, lastOp, err, calls, trace>>

\* parser.parse_args(): a --mode outside choices ends the script with a
\* usage error
parse_args ==
    /\ cli.pc = "start"
    /\ cli' = IF cli.mode \in ModeChoices
              THEN [cli EXCEPT !.pc = "parsed"]
              ELSE [cli EXCEPT !.pc = "exit", !.error = "usage"]
    /\ UNCHANGED GDLearningVars

\* main(): pick the settings of the mode, or raise ValueError("Unknown mode")
main ==
    /\ cli.pc = "parsed"
    /\ cli' = IF mode_settings(cli.mode) = None
              THEN [cli EXCEPT !.pc = "exit", !.error = "ValueError"]
              ELSE [cli EXCEPT !.pc = "trained", !.settings = mode_settings(cli.mode)]
    /\ UNCHANGED GDLearningVars

NextTrain == parse_args \/ main

SpecTrain == InitTrain /\ [][NextTrain]_vars

TypeOK ==
    /\ status \in {"new", "ok", "failed"}
    /\ calls \in 0..MaxCalls
    /\ err \in {"none", "ValueError", "KeyError"}

(***************************************************************************)
(* Properties                                                              *)
(***************************************************************************)
Constructed == status = "ok"
ParamRecords == param_nodes[1]
LeafRecords == gaussian_leaf_nodes[1]
Before == trace.before[1]
ParametricNodes == {n \in Reachable : spn[n].is_param}
Parents(n) == {m \in Reachable : n \in spn[m].children}

\* C1: after construction the weight registry holds exactly one record for
\* every parametric node of the DAG rooted at root and nothing else, also
\* when a parametric node has several parents.
C1_OneRecordPerParametricNode ==
    Constructed =>
        /\ Len(ParamRecords) = Cardinality(ParametricNodes)
        /\ {ParamRecords[i].node : i \in 1..Len(ParamRecords)} = ParametricNodes
        /\ \A i, j \in 1..Len(ParamRecords) :
               ParamRecords[i].node = ParamRecords[j].node => i = j

C1_Witness ==
    /\ Constructed
    /\ Len(ParamRecords) >= 2
    /\ \E n \in ParametricNodes : Cardinality(Parents(n)) >= 2
    /\ \E n \in Reachable : spn[n].gaussian_leaf

\* C2: on one GDLearning instance the positive pass of the provider is run
\* at most once and the actual pass is run at most once, whatever calls are
\* made and whatever tables the passes compute.
C2_PassesRunAtMostOnce ==
    Constructed =>
        /\ Provider.positive_calls <= 1
        /\ Provider.actual_calls <= 1

\* C3: in generative mode the actual pass is never run, the actual table
\* stays unpopulated and no entry of it is ever looked up.
C3_GenerativeNeverUsesActual ==
    (Constructed /\ args.learning_type = GENERATIVE) =>
        /\ Provider.actual_calls = 0
        /\ Provider.actual = <<>>
        /\ trace.actual_lookups = 0

C3_Witness ==
    /\ Constructed
    /\ args.learning_type = GENERATIVE
    /\ calls = MaxCalls
    /\ lastOp = "accumulate"
    /\ err = "none"
    /\ trace.accumulated >= 2
    /\ Len(ParamRecords) > 0
    /\ Len(LeafRecords) > 0
    /\ engine.actual # <<>>

\* C4: right after reset_accumulators() every weight accumulator and both
\* accumulators of every leaf record are zero and have the shape they had
\* before the call, the shape of the node's parameter.
C4_ResetZeroesEveryAccumulator ==
    (Constructed /\ lastOp = "reset") =>
        /\ \A i \in 1..Len(ParamRecords) :
               /\ IsZero(ParamRecords[i].accum)
               /\ DOMAIN ParamRecords[i].accum = DOMAIN Before.param_nodes[i].accum
               /\ Len(ParamRecords[i].accum) = Shape(ParamRecords[i].node)
        /\ \A i \in 1..Len(LeafRecords) :
               /\ IsZero(LeafRecords[i].mean_grad)
               /\ IsZero(LeafRecords[i].var_grad)
               /\ DOMAIN LeafRecords[i].mean_grad = DOMAIN Before.gaussian_leaf_nodes[i].mean_grad
               /\ DOMAIN LeafRecords[i].var_grad = DOMAIN Before.gaussian_leaf_nodes[i].var_grad
               /\ Len(LeafRecords[i].mean_grad) = Shape(LeafRecords[i].node)
               /\ Len(LeafRecords[i].var_grad) = Shape(LeafRecords[i].node)

C4_Witness ==
    /\ Constructed
    /\ lastOp = "reset"
    /\ \E i \in 1..Len(ParamRecords) : ~IsZero(Before.param_nodes[i].accum)
    /\ \E i \in 1..Len(LeafRecords) :
           /\ ~IsZero(Before.gaussian_leaf_nodes[i].mean_grad)
           /\ ~IsZero(Before.gaussian_leaf_nodes[i].var_grad)

\* C5: update_spn() leaves every accumulator as it was, and k update_spn()
\* calls with no change of the accumulators in between move each live
\* parameter by k times its accumulator: twice for two calls, once for a
\* call followed by reset_accumulators().
C5_UpdateKeepsAccumulatorsAndAddsEachTime ==
    Constructed =>
        /\ lastOp = "update" =>
               /\ ParamRecords = Before.param_nodes
               /\ LeafRecords = Before.gaussian_leaf_nodes
        /\ \A i \in 1..Len(ParamRecords) :
               variable[ParamRecords[i].node] =
                   tensor_add(trace.variable_at_change[ParamRecords[i].node],
                              tensor_scale(ParamRecords[i].accum, trace.updated))
        /\ \A i \in 1..Len(LeafRecords) :
               /\ loc_variable[LeafRecords[i].node] =
                      tensor_add(trace.loc_at_change[LeafRecords[i].node],
                                 tensor_scale(LeafRecords[i].mean_grad, trace.updated))
               /\ scale_variable[LeafRecords[i].node] =
                      tensor_add(trace.scale_at_change[LeafRecords[i].node],
                                 tensor_scale(LeafRecords[i].var_grad, trace.updated))

C5_Witness ==
    /\ Constructed
    /\ lastOp = "update"
    /\ trace.updated = 2
    /\ \E i \in 1..Len(ParamRecords) : ~IsZero(ParamRecords[i].accum)
    /\ \E i \in 1..Len(LeafRecords) : ~IsZero(LeafRecords[i].var_grad)

\* C6: in DISCRIMINATIVE mode with the actual signal equal to the positive
\* signal for every node, accumulate_updates() leaves every weight
\* accumulator and every leaf accumulator at the value it had before.
C6_EqualSignalsAddNothing ==
    (/\ Constructed
     /\ lastOp = "accumulate"
     /\ args.learning_type = DISCRIMINATIVE
     /\ engine.actual = engine.positive) =>
        /\ ParamRecords = Before.param_nodes
        /\ LeafRecords = Before.gaussian_leaf_nodes

C6_Witness ==
    /\ Constructed
    /\ lastOp = "accumulate"
    /\ err = "none"
    /\ args.learning_type = DISCRIMINATIVE
    /\ engine.actual = engine.positive
    /\ \A i \in 1..Len(ParamRecords) :
           ~IsZero(Provider.positive[ParamRecords[i].node])
    /\ \A i \in 1..Len(LeafRecords) :
           ~IsZero(Provider.positive[LeafRecords[i].node])
    /\ Len(ParamRecords) > 0
    /\ Len(LeafRecords) > 0
    /\ learning_rate = Some(2)

\* C7: k accumulate_updates() calls since the accumulators were last zero
\* leave each weight accumulator at k * learning_rate * update, where the
\* update is positive - actual in DISCRIMINATIVE mode and the positive
\* signal (the count) otherwise.
C7_AccumulatorIsSumOfDeltas ==
    Constructed =>
        \A i \in 1..Len(ParamRecords) :
            LET n == ParamRecords[i].node
            IN  IF trace.accumulated = 0
                THEN IsZero(ParamRecords[i].accum)
                ELSE ParamRecords[i].accum =
                         tensor_scale(
                             IF args.learning_type = DISCRIMINATIVE
                             THEN tensor_sub(engine.positive[n], engine.actual[n])
                             ELSE engine.positive[n],
                             trace.accumulated * learning_rate[1])

C7_Witness ==
    /\ Constructed
    /\ trace.accumulated = 2
    /\ args.learning_type = GENERATIVE
    /\ args.learning_inference_type = HARD
    /\ learning_rate = Some(2)
    /\ \E i \in 1..Len(ParamRecords) : ~IsZero(ParamRecords[i].accum)

\* C8: a learning_rate <= 0 makes the constructor raise ValueError with no
\* provider created, no registry allocated and no rate stored; a
\* learning_rate > 0 is stored as given.
C8_NonPositiveRateRejected ==
    /\ (status # "new" /\ args.learning_rate <= 0) =>
           /\ status = "failed"
           /\ err = "ValueError"
           /\ learning_rate = None
           /\ mpe_path = None
           /\ gradient = None
           /\ param_nodes = None
           /\ gaussian_leaf_nodes = None
    /\ (status # "new" /\ args.learning_rate > 0) =>
           /\ status = "ok"
           /\ learning_rate = Some(args.learning_rate)

C8_Witness ==
    /\ status = "failed"
    /\ args.learning_rate = 0
    /\ lastOp = "construct"

\* some registered record has no entry in a table accumulate_updates() reads
SignalMissing ==
    \/ \E i \in 1..Len(ParamRecords) :
           \/ ParamRecords[i].node \notin DOMAIN Provider.positive
           \/ /\ args.learning_type = DISCRIMINATIVE
              /\ ParamRecords[i].node \notin DOMAIN Provider.actual
    \/ \E i \in 1..Len(LeafRecords) :
           \/ LeafRecords[i].node \notin DOMAIN Provider.positive
           \/ /\ args.learning_type = DISCRIMINATIVE
              /\ LeafRecords[i].node \notin DOMAIN Provider.actual

\* C9: accumulate_updates() raises when a table it reads has no entry for
\* the node of a registered record; no accumulator of any record is changed
\* by such a call.
C9_MissingSignalRaises ==
    (Constructed /\ lastOp = "accumulate" /\ SignalMissing) =>
        /\ err = "KeyError"
        /\ ParamRecords = Before.param_nodes
        /\ LeafRecords = Before.gaussian_leaf_nodes

C9_Witness ==
    /\ Constructed
    /\ lastOp = "accumulate"
    /\ err = "KeyError"
    /\ \E i, j \in 1..Len(ParamRecords) :
           /\ ParamRecords[i].node \notin DOMAIN Provider.positive
           /\ ParamRecords[j].node \in DOMAIN Provider.positive
    /\ Provider.positive_calls = 1

\* C10: the live parameters (weights, leaf locations and scales) are the
\* same after accumulate_updates() as before it; a call that changed them
\* was update_spn().
C10_AccumulateKeepsLiveParameters ==
    (Constructed /\ trace.before # None /\ lastOp # "update") =>
        /\ variable = Before.variable
        /\ loc_variable = Before.loc_variable
        /\ scale_variable = Before.scale_variable

C10_Witness ==
    /\ Constructed
    /\ lastOp = "accumulate"
    /\ err = "none"
    /\ variable # [n \in Nodes |-> [i \in 1..Shape(n) |-> 1]]
    /\ \E i \in 1..Len(ParamRecords) :
           ParamRecords[i].accum # Before.param_nodes[i].accum
    /\ \E i \in 1..Len(LeafRecords) :
           LeafRecords[i].mean_grad # Before.gaussian_leaf_nodes[i].mean_grad

InitialVariable == [n \in Nodes |-> [i \in 1..Shape(n) |-> 1]]

\* C11: reset_accumulators() is enabled in every state of a constructed
\* instance, never raises, and leaves the live parameters and both cached
\* signal tables (and the providers' call counts) as they were.
C11_ResetKeepsParametersAndTables ==
    /\ (Constructed /\ calls < MaxCalls) => ENABLED reset_accumulators
    /\ (Constructed /\ lastOp = "reset") =>
           /\ err = "none"
           /\ variable = Before.variable
           /\ loc_variable = Before.loc_variable
           /\ scale_variable = Before.scale_variable
           /\ Provider = Before.provider

C11_Witness ==
    /\ Constructed
    /\ lastOp = "reset"
    /\ Before.lastOp = "update"
    /\ variable # InitialVariable
    /\ \E i \in 1..Len(LeafRecords) :
           loc_variable[LeafRecords[i].node] # zeros_like(loc_variable[LeafRecords[i].node])
    /\ DOMAIN Provider.positive # {}
    /\ DOMAIN Provider.actual # {}

\* C12: an update_spn() that directly follows reset_accumulators() changes
\* no live parameter: after update_spn(); reset_accumulators(); update_spn()
\* the weights of linear-space and log-space nodes and the leaf locations
\* and scales are what the first update_spn() left.
C12_UpdateAfterResetChangesNothing ==
    (Constructed /\ lastOp = "update" /\ Before.lastOp = "reset") =>
        /\ variable = trace.variable_at_change
        /\ loc_variable = trace.loc_at_change
        /\ scale_variable = trace.scale_at_change
        /\ variable = Before.variable
        /\ loc_variable = Before.loc_variable
        /\ scale_variable = Before.scale_variable

C12_Witness ==
    /\ Constructed
    /\ lastOp = "update"
    /\ Before.lastOp = "reset"
    /\ calls = 4
    /\ \E i, j \in 1..Len(ParamRecords) :
           /\ spn[ParamRecords[i].node].log
           /\ ~spn[ParamRecords[j].node].log
           /\ variable[ParamRecords[i].node] # InitialVariable[ParamRecords[i].node]
           /\ variable[ParamRecords[j].node] # InitialVariable[ParamRecords[j].node]

NodeCalls == trace.node_calls
CallsOf(name) == {k \in 1..Len(NodeCalls) : NodeCalls[k].call = name}

\* C13: outside DISCRIMINATIVE mode accumulate_updates() hands every weight
\* node the positive signal with None as the actual signal and hands every
\* leaf the positive signal as it stands in the table.
C13_NoCorrectionUnlessDiscriminative ==
    (Constructed /\ lastOp = "accumulate" /\ args.learning_type # DISCRIMINATIVE) =>
        /\ \A k \in 1..Len(NodeCalls) :
               /\ NodeCalls[k].actual = None
               /\ NodeCalls[k].signal = Provider.positive[NodeCalls[k].node]
        /\ err = "none" =>
               /\ Cardinality(CallsOf("compute_hard_gd_update")) = Len(ParamRecords)
               /\ Cardinality(CallsOf("compute_gradient")) = Len(LeafRecords)

C13_Witness ==
    /\ Constructed
    /\ lastOp = "accumulate"
    /\ err = "none"
    /\ args.learning_type = GENERATIVE
    /\ CallsOf("compute_hard_gd_update") # {}
    /\ CallsOf("compute_gradient") # {}
    /\ engine.actual # <<>>
    /\ engine.actual # engine.positive

\* C14: every successful accumulate_updates() of a session runs the same
\* ops with the same deltas as the first one, also when update_spn() has
\* changed the live parameters in between, and the tables stay those that
\* were first populated.
C14_LaterCallsUseCachedSignals ==
    (Constructed /\ trace.first_tables # None) =>
        /\ Provider.positive = trace.first_tables[1].positive
        /\ Provider.actual = trace.first_tables[1].actual
        /\ (lastOp = "accumulate" /\ err = "none") =>
               trace.last_ops = trace.first_ops[1]

C14_Witness ==
    /\ Constructed
    /\ lastOp = "accumulate"
    /\ err = "none"
    /\ Before.lastOp = "update"
    /\ trace.accumulated = 2
    /\ ParameterDrift(NumNodes) # 0
    /\ \E k \in 1..Len(trace.last_ops) : ~IsZero(trace.last_ops[k].delta)
    /\ Len(ParamRecords) > 0
    /\ Len(LeafRecords) > 0

\* C15: update_spn() calls update_log on a weight node exactly when the
\* node is in log space and update otherwise, with the record's
\* accumulator, whatever the learning inference type and the log flag of
\* the instance; every leaf gets one assign_add with its location and its
\* scale accumulator, and both are applied.
C15_CommitRuleFollowsNode ==
    (Constructed /\ lastOp = "update") =>
        /\ Len(trace.commits) = Len(ParamRecords) + Len(LeafRecords)
        /\ \A i \in 1..Len(ParamRecords) :
               /\ trace.commits[i].node = ParamRecords[i].node
               /\ trace.commits[i].call =
                      (IF spn[ParamRecords[i].node].log THEN "update_log" ELSE "update")
               /\ trace.commits[i].deltas = <<ParamRecords[i].accum>>
        /\ \A j \in 1..Len(LeafRecords) :
               LET c == trace.commits[Len(ParamRecords) + j]
                   n == LeafRecords[j].node
               IN  /\ c.node = n
                   /\ c.call = "assign_add"
                   /\ c.deltas = <<LeafRecords[j].mean_grad, LeafRecords[j].var_grad>>
                   /\ loc_variable[n] =
                          tensor_add(Before.loc_variable[n], LeafRecords[j].mean_grad)
                   /\ scale_variable[n] =
                          tensor_add(Before.scale_variable[n], LeafRecords[j].var_grad)

C15_Witness ==
    /\ Constructed
    /\ lastOp = "update"
    /\ log = Some(FALSE)
    /\ args.learning_inference_type = SOFT
    /\ \E i \in 1..Len(ParamRecords) :
           /\ trace.commits[i].call = "update_log"
           /\ ~IsZero(ParamRecords[i].accum)
    /\ \E j \in 1..Len(LeafRecords) :
           /\ ~IsZero(LeafRecords[j].mean_grad)
           /\ LeafRecords[j].var_grad # LeafRecords[j].mean_grad

\* C16: in DISCRIMINATIVE mode every leaf's compute_gradient gets the one
\* signal positive - actual, every weight node's compute_hard_gd_update
\* gets the positive and the actual signal as they stand in the tables, and
\* what is added to each accumulator is learning_rate times the result.
C16_CorrectionPointByRecordType ==
    (Constructed /\ lastOp = "accumulate" /\ err = "none"
        /\ args.learning_type = DISCRIMINATIVE) =>
        /\ Len(NodeCalls) = Len(ParamRecords) + Len(LeafRecords)
        /\ \A i \in 1..Len(ParamRecords) :
               LET n == ParamRecords[i].node
               IN  /\ NodeCalls[i].node = n
                   /\ NodeCalls[i].call = "compute_hard_gd_update"
                   /\ NodeCalls[i].signal = Provider.positive[n]
                   /\ NodeCalls[i].actual = Some(Provider.actual[n])
                   /\ ParamRecords[i].accum =
                          tensor_add(Before.param_nodes[i].accum,
                              tensor_scale(
                                  tensor_sub(Provider.positive[n], Provider.actual[n]),
                                  learning_rate[1]))
        /\ \A j \in 1..Len(LeafRecords) :
               LET n == LeafRecords[j].node
                   c == NodeCalls[Len(ParamRecords) + j]
                   d == tensor_sub(Provider.positive[n], Provider.actual[n])
               IN  /\ c.node = n
                   /\ c.call = "compute_gradient"
                   /\ c.signal = d
                   /\ c.actual = None
                   /\ LeafRecords[j].mean_grad =
                          tensor_add(Before.gaussian_leaf_nodes[j].mean_grad,
                              tensor_scale(compute_gradient(d).mean_grad,
                                           learning_rate[1]))
                   /\ LeafRecords[j].var_grad =
                          tensor_add(Before.gaussian_leaf_nodes[j].var_grad,
                              tensor_scale(compute_gradient(d).var_grad,
                                           learning_rate[1]))

C16_Witness ==
    /\ Constructed
    /\ lastOp = "accumulate"
    /\ err = "none"
    /\ args.learning_type = DISCRIMINATIVE
    /\ learning_rate = Some(2)
    /\ Len(ParamRecords) > 0
    /\ Len(LeafRecords) > 0
    /\ \A k \in 1..Len(NodeCalls) :
           /\ ~IsZero(Provider.actual[NodeCalls[k].node])
           /\ Provider.actual[NodeCalls[k].node] # Provider.positive[NodeCalls[k].node]

TrainableLeaves ==
    {n \in Reachable : spn[n].gaussian_leaf /\ spn[n].learn_distribution_parameters}

\* C17: after construction the leaf registry holds one record, with a zero
\* location-gradient and a zero scale-gradient accumulator of the
\* parameters' shapes, for every reachable leaf that learns its
\* distribution parameters, and no other record.
C17_OneRecordPerTrainableLeaf ==
    Constructed =>
        /\ Len(LeafRecords) = Cardinality(TrainableLeaves)
        /\ {LeafRecords[i].node : i \in 1..Len(LeafRecords)} = TrainableLeaves
        /\ lastOp = "construct" =>
               \A i \in 1..Len(LeafRecords) :
                   /\ IsZero(LeafRecords[i].mean_grad)
                   /\ IsZero(LeafRecords[i].var_grad)
                   /\ DOMAIN LeafRecords[i].mean_grad =
                          DOMAIN loc_variable[LeafRecords[i].node]
                   /\ DOMAIN LeafRecords[i].var_grad =
                          DOMAIN scale_variable[LeafRecords[i].node]

C17_Witness ==
    /\ Constructed
    /\ lastOp = "construct"
    /\ Len(LeafRecords) >= 1
    /\ \E n \in Reachable :
           spn[n].gaussian_leaf /\ ~spn[n].learn_distribution_parameters
    /\ \E n \in Nodes \ Reachable :
           spn[n].gaussian_leaf /\ spn[n].learn_distribution_parameters

LeafOps(ops) == SelectSeq(ops, LAMBDA o : o.target \in {"mean_grad", "var_grad"})

\* C18: accumulate_updates() leaves the entries of both signal tables as
\* they were before the call (the subtraction for a leaf does not write
\* the positive entry back), so a later call adds the same leaf deltas as
\* the first.
C18_AccumulateKeepsTables ==
    (Constructed /\ lastOp = "accumulate") =>
        /\ DOMAIN Before.provider.positive # {} =>
               Provider.positive = Before.provider.positive
        /\ DOMAIN Before.provider.actual # {} =>
               Provider.actual = Before.provider.actual
        /\ DOMAIN Before.provider.positive = {} =>
               Provider.positive = run_pass(engine.positive)
        /\ (err = "none" /\ trace.first_ops # None) =>
               LeafOps(trace.last_ops) = LeafOps(trace.first_ops[1])

C18_Witness ==
    /\ Constructed
    /\ lastOp = "accumulate"
    /\ err = "none"
    /\ args.learning_type = DISCRIMINATIVE
    /\ trace.accumulated = 2
    /\ Len(LeafRecords) > 0
    /\ \A j \in 1..Len(LeafRecords) :
           /\ ~IsZero(Provider.actual[LeafRecords[j].node])
           /\ ~IsZero(LeafRecords[j].mean_grad)

\* C19: main() handles every mode the parser accepts: once the arguments
\* are parsed, main() ends with the settings of the mode and never with
\* the "Unknown mode" ValueError.
C19_EveryAcceptedModeHandled ==
    (cli.pc \in {"trained", "exit"} /\ cli.mode \in ModeChoices) =>
        /\ cli.error # "ValueError"
        /\ cli.pc = "trained"
        /\ cli.settings # None

====
